---- MODULE Spec2Model ----
(***************************************************************************)
(* Tiny expression -> LLVM IR compiler (src/tiny_comp/tiny_compiler.py).   *)
(*                                                                         *)
(* The source text is a sequence of characters (one-character strings).   *)
(* Python's unbounded int is a sign and a little-endian sequence of        *)
(* decimal digits, because the values the program handles (2**31, 2**32)   *)
(* do not fit the model checker's machine integers.  Python's str values   *)
(* (operands of the emitted lines) are sequences of characters.            *)
(***************************************************************************)
EXTENDS Integers, Sequences, FiniteSets, TLC

VARIABLES text, print_result, phase, pos, current, ntok, stack, ret,
          outcome, error, ir, calls, steps

vars == <<text, print_result, phase, pos, current, ntok, stack, ret,
          outcome, error, ir, calls, steps>>

(***************************************************************************)
(* Bounds of the model.                                                    *)
(***************************************************************************)
MaxLen == 3
MaxExprLen == 5
MaxEofCalls == 2

None == [none |-> TRUE]

(***************************************************************************)
(* Python int: [neg, mag], mag little-endian decimal digits, canonical     *)
(* (no most-significant zero digit; zero is the empty magnitude, neg=FALSE)*)
(***************************************************************************)
RECURSIVE MNorm(_)
MNorm(m) == IF m = <<>> THEN <<>>
            ELSE IF m[Len(m)] = 0 THEN MNorm(SubSeq(m, 1, Len(m) - 1))
            ELSE m

RECURSIVE MCmpFrom(_, _, _)
MCmpFrom(a, b, i) == IF i = 0 THEN 0
                     ELSE IF a[i] < b[i] THEN -1
                     ELSE IF a[i] > b[i] THEN 1
                     ELSE MCmpFrom(a, b, i - 1)

\* -1, 0, 1 as a < b, a = b, a > b (canonical magnitudes)
MCmp(a, b) == IF Len(a) < Len(b) THEN -1
              ELSE IF Len(a) > Len(b) THEN 1
              ELSE MCmpFrom(a, b, Len(a))

RECURSIVE MAddC(_, _, _)
MAddC(a, b, c) ==
    IF a = <<>> /\ b = <<>> THEN (IF c = 0 THEN <<>> ELSE <<c>>)
    ELSE LET x == IF a = <<>> THEN 0 ELSE Head(a)
             y == IF b = <<>> THEN 0 ELSE Head(b)
             s == x + y + c
         IN  <<s % 10>> \o MAddC(IF a = <<>> THEN <<>> ELSE Tail(a),
                                 IF b = <<>> THEN <<>> ELSE Tail(b),
                                 s \div 10)

MAdd(a, b) == MAddC(a, b, 0)

RECURSIVE MSubB(_, _, _)
MSubB(a, b, c) ==
    IF a = <<>> THEN <<>>
    ELSE LET y == IF b = <<>> THEN 0 ELSE Head(b)
             d == Head(a) - y - c
         IN  <<(d + 10) % 10>> \o MSubB(Tail(a),
                                        IF b = <<>> THEN <<>> ELSE Tail(b),
                                        IF d < 0 THEN 1 ELSE 0)

\* a - b for a >= b
MSub(a, b) == MNorm(MSubB(a, b, 0))

RECURSIVE MMulDigitC(_, _, _)
MMulDigitC(a, d, c) ==
    IF a = <<>> THEN (IF c = 0 THEN <<>> ELSE <<c>>)
    ELSE LET p == Head(a) * d + c
         IN  <<p % 10>> \o MMulDigitC(Tail(a), d, p \div 10)

\* a * b, one digit of b at a time from the most significant
RECURSIVE MMulFrom(_, _, _, _)
MMulFrom(a, b, i, acc) ==
    IF i = 0 THEN acc
    ELSE LET acc2 == MAdd(MMulDigitC(a, b[i], 0),
                          IF acc = <<>> THEN <<>> ELSE <<0>> \o acc)
         IN  IF Len(acc2) >= 0 THEN MMulFrom(a, b, i - 1, MNorm(acc2)) ELSE <<>>

MMul(a, b) == IF a = <<>> \/ b = <<>> THEN <<>> ELSE MMulFrom(a, b, Len(b), <<>>)

\* largest k in 0..9 with k*b <= r, found by repeated subtraction
RECURSIVE MQuotDigit(_, _, _)
MQuotDigit(r, b, k) == IF MCmp(r, b) < 0 THEN [q |-> k, r |-> r]
                       ELSE MQuotDigit(MSub(r, b), b, k + 1)

\* long division, most significant digit first; b # 0
RECURSIVE MDivModFrom(_, _, _, _)
MDivModFrom(a, b, i, r) ==
    IF i = 0 THEN [q |-> <<>>, r |-> r]
    ELSE LET r1 == MNorm(<<a[i]>> \o r)
             qd == MQuotDigit(r1, b, 0)
             lo == MDivModFrom(a, b, i - 1, qd.r)
         IN  IF qd.q <= 9 THEN [q |-> lo.q \o <<qd.q>>, r |-> lo.r] ELSE None

MDivMod(a, b) == LET d == MDivModFrom(a, b, Len(a), <<>>)
                 IN  [q |-> MNorm(d.q), r |-> d.r]

MkInt(neg, mag) == [neg |-> neg /\ mag # <<>>, mag |-> mag]

IZero == MkInt(FALSE, <<>>)

INeg(a) == MkInt(~a.neg, a.mag)

IAdd(a, b) ==
    IF a.neg = b.neg THEN MkInt(a.neg, MAdd(a.mag, b.mag))
    ELSE IF MCmp(a.mag, b.mag) >= 0 THEN MkInt(a.neg, MSub(a.mag, b.mag))
    ELSE MkInt(b.neg, MSub(b.mag, a.mag))

ISub(a, b) == IAdd(a, INeg(b))

IMul(a, b) == MkInt(a.neg # b.neg, MMul(a.mag, b.mag))

\* quotient rounded toward zero; b # 0
ITruncDiv(a, b) == MkInt(a.neg # b.neg, MDivMod(a.mag, b.mag).q)

ILt(a, b) ==
    IF a.neg /\ ~b.neg THEN TRUE
    ELSE IF ~a.neg /\ b.neg THEN FALSE
    ELSE IF a.neg THEN MCmp(a.mag, b.mag) > 0
    ELSE MCmp(a.mag, b.mag) < 0

ILe(a, b) == ~ILt(b, a)

RECURSIVE MOfNat(_)
MOfNat(n) == IF n = 0 THEN <<>> ELSE <<n % 10>> \o MOfNat(n \div 10)

\* a (small) machine integer as a Python int
IOf(n) == IF n < 0 THEN MkInt(TRUE, MOfNat(-n)) ELSE MkInt(FALSE, MOfNat(n))

\* the decimal digits ds, most significant first, as a Python int
IDec(ds) == MkInt(FALSE, [i \in 1..Len(ds) |-> ds[Len(ds) + 1 - i]])

TwoTo31 == IDec(<<2, 1, 4, 7, 4, 8, 3, 6, 4, 8>>)

TwoTo32 == IDec(<<4, 2, 9, 4, 9, 6, 7, 2, 9, 6>>)

TwoTo63 == IDec(<<9, 2, 2, 3, 3, 7, 2, 0, 3, 6, 8, 5, 4, 7, 7, 5, 8, 0, 8>>)

TwoTo64 == IDec(<<1, 8, 4, 4, 6, 7, 4, 4, 0, 7, 3, 7, 0, 9, 5, 5, 1, 6, 1, 6>>)

(***************************************************************************)
(* Characters.  "sup2" stands for U+00B2 (superscript two), a character    *)
(* for which str.isdigit() is true and int() raises ValueError; "&" stands *)
(* for any character the lexer does not know.                              *)
(***************************************************************************)
AsciiDigits == {"0", "1", "2", "3", "4", "5", "6", "7", "8", "9"}

\* str.isspace()
IsSpace(c) == c = " "

\* str.isdigit()
IsDigit(c) == c \in AsciiDigits \cup {"sup2"}

\* the characters int() reads as a decimal digit
IsDecimal(c) == c \in AsciiDigits

DigitVal(c) == CASE c = "0" -> 0 [] c = "1" -> 1 [] c = "2" -> 2 [] c = "3" -> 3
                 [] c = "4" -> 4 [] c = "5" -> 5 [] c = "6" -> 6 [] c = "7" -> 7
                 [] c = "8" -> 8 [] c = "9" -> 9

DigitChar(d) == CASE d = 0 -> "0" [] d = 1 -> "1" [] d = 2 -> "2" [] d = 3 -> "3"
                  [] d = 4 -> "4" [] d = 5 -> "5" [] d = 6 -> "6" [] d = 7 -> "7"
                  [] d = 8 -> "8" [] d = 9 -> "9"

Reverse(s) == [i \in 1..Len(s) |-> s[Len(s) + 1 - i]]

\* str.isdigit() of a whole string: non-empty and every character a digit
StrIsDigit(s) == s # <<>> /\ \A i \in 1..Len(s) : IsDigit(s[i])

\* str.lstrip('-')
RECURSIVE LStripMinus(_)
LStripMinus(s) == IF s # <<>> /\ Head(s) = "-" THEN LStripMinus(Tail(s)) ELSE s

\* int(s): [ok, val]; ok = FALSE is ValueError
PyInt(s) ==
    LET neg  == s # <<>> /\ Head(s) = "-"
        body == IF s # <<>> /\ Head(s) \in {"-", "+"} THEN Tail(s) ELSE s
    IN  IF body = <<>> \/ \E i \in 1..Len(body) : ~IsDecimal(body[i])
        THEN [ok |-> FALSE, val |-> None]
        ELSE [ok |-> TRUE,
              val |-> MkInt(neg, MNorm(Reverse([i \in 1..Len(body) |-> DigitVal(body[i])])))]

\* str(n)
PyStr(n) ==
    IF n.mag = <<>> THEN <<"0">>
    ELSE (IF n.neg THEN <<"-">> ELSE <<>>)
         \o Reverse([i \in 1..Len(n.mag) |-> DigitChar(n.mag[i])])

(***************************************************************************)
(* Lexer                                                                   *)
(***************************************************************************)
Token(type, value) == [type |-> type, value |-> value]

\* an exception: its class, the fixed text of its message and the values the
\* message interpolates
SyntaxError(msg, args) == [type |-> "SyntaxError", msg |-> msg, args |-> args]

ValueError(msg, args) == [type |-> "ValueError", msg |-> msg, args |-> args]

\* None in the place of a character (a character is a string here)
NoChar == "None"

\* Lexer.current, which the code keeps equal to text[pos] or None
LexCurrent(t, p) == IF p < Len(t) THEN t[p + 1] ELSE NoChar

\* Lexer.advance
advance(t, p) == p + 1

\* Lexer.skip_ws: the position after the run of whitespace at p
RECURSIVE skip_ws(_, _)
skip_ws(t, p) == IF LexCurrent(t, p) # NoChar /\ IsSpace(LexCurrent(t, p))
                 THEN skip_ws(t, advance(t, p))
                 ELSE p

\* the loop of Lexer.integer: the position after the run of digits at p
RECURSIVE DigitRun(_, _)
DigitRun(t, p) == IF LexCurrent(t, p) # NoChar /\ IsDigit(LexCurrent(t, p))
                  THEN DigitRun(t, advance(t, p))
                  ELSE p

\* Lexer.integer: [pos, exc, value]
integer(t, p) ==
    LET q == DigitRun(t, p)
        s == SubSeq(t, p + 1, q)
        n == PyInt(s)
    IN  IF n.ok THEN [pos |-> q, exc |-> None, value |-> n.val]
        ELSE [pos |-> q, exc |-> ValueError("invalid literal for int() with base 10: ", <<s>>),
              value |-> None]

OpToken(c) == CASE c = "+" -> "PLUS" [] c = "-" -> "MINUS" [] c = "*" -> "MUL"
                [] c = "/" -> "DIV" [] c = "(" -> "LPAREN" [] c = ")" -> "RPAREN"

\* a faulty variant: the token is returned without advancing
operator_token_no_advance(t, q, c) ==
    [pos |-> q, exc |-> None, tok |-> Token(OpToken(c), None)]

\* the six branches of lines 61-72: advance past c and return its token
operator_token(t, q, c) ==
    [pos |-> advance(t, q), exc |-> None, tok |-> Token(OpToken(c), None)]

\* a faulty variant: an unknown character is skipped like whitespace up to the end
\* of the text, and EOF is returned
get_next_token_lenient(t, p) ==
    LET q == skip_ws(t, p)
        c == LexCurrent(t, q)
    IN  IF c = NoChar THEN [pos |-> q, exc |-> None, tok |-> Token("EOF", None)]
        ELSE IF IsDigit(c)
        THEN LET n == integer(t, q)
             IN  [pos |-> n.pos, exc |-> n.exc,
                  tok |-> IF n.exc = None THEN Token("NUMBER", n.value) ELSE None]
        ELSE IF c \in {"+", "-", "*", "/", "(", ")"}
        THEN [pos |-> advance(t, q), exc |-> None, tok |-> Token(OpToken(c), None)]
        ELSE [pos |-> Len(t), exc |-> None, tok |-> Token("EOF", None)]

\* Lexer.get_next_token: [pos, exc, tok]
get_next_token(t, p) ==
    LET q == skip_ws(t, p)
        c == LexCurrent(t, q)
    IN  IF c = NoChar THEN [pos |-> q, exc |-> None, tok |-> Token("EOF", None)]
        ELSE IF IsDigit(c)
        THEN LET n == integer(t, q)
             IN  [pos |-> n.pos, exc |-> n.exc,
                  tok |-> IF n.exc = None THEN Token("NUMBER", n.value) ELSE None]
        ELSE IF c \in {"+", "-", "*", "/", "(", ")"}
        THEN operator_token(t, q, c)
        ELSE [pos |-> q, exc |-> SyntaxError("Unexpected character: ", <<c>>),
              tok |-> None]

(***************************************************************************)
(* AST                                                                     *)
(***************************************************************************)
Number(value) == [kind |-> "Number", value |-> value]

\* a faulty variant: the operands change places
BinOp_swapped(op, left, right) ==
    [kind |-> "BinOp", op |-> op, left |-> right, right |-> left]

BinOp(op, left, right) == [kind |-> "BinOp", op |-> op, left |-> left, right |-> right]

UnaryOp(op, expr) == [kind |-> "UnaryOp", op |-> op, expr |-> expr]

(***************************************************************************)
(* Parser: the recursive descent as a machine with an explicit call stack. *)
(* A frame is one activation of parse, expr, term or factor: pc is where   *)
(* it resumes, node and op are its locals.  ret is the value the callee    *)
(* that has just returned gave back.  ntok and steps are history           *)
(* variables: the tokens other than EOF the lexer has returned, and the    *)
(* steps compile_to_ir has taken.                                          *)
(***************************************************************************)
Frame(fn, pc, node, op) == [fn |-> fn, pc |-> pc, node |-> node, op |-> op]

Top == stack[Len(stack)]

Below == SubSeq(stack, 1, Len(stack) - 1)

\* a faulty variant: the token is accepted but the next one is not fetched
eat_no_fetch(t) ==
    IF current.type = t THEN [pos |-> pos, tok |-> current, exc |-> None]
    ELSE [pos |-> pos, tok |-> current,
          exc |-> SyntaxError("Expected token , got ", <<t, current>>)]

\* Parser.eat: [pos, exc, tok]
eat(t) ==
    IF current.type = t THEN get_next_token(text, pos)
    ELSE [pos |-> pos, tok |-> current,
          exc |-> SyntaxError("Expected token , got ", <<t, current>>)]

\* the count of tokens other than EOF the lexer has returned
Counted(n, tok) == IF tok.type = "EOF" THEN n ELSE n + 1

\* an exception leaves compile_to_ir: every frame is unwound
Raise(exc, p) ==
    /\ outcome' = "raised"
    /\ error' = exc
    /\ pos' = p
    /\ stack' = <<>>
    /\ phase' = "done"
    /\ UNCHANGED <<text, print_result, current, ntok, ret, ir, calls>>

\* the lexer returned token r.tok and the parser goes on with stack st
Shift(r, st) ==
    /\ current' = r.tok
    /\ pos' = r.pos
    /\ ntok' = Counted(ntok, r.tok)
    /\ stack' = st
    /\ UNCHANGED <<text, print_result, phase, ret, outcome, error, ir, calls>>

\* the running function returns value v to its caller
Return(v) ==
    /\ ret' = v
    /\ stack' = Below
    /\ UNCHANGED <<text, print_result, phase, pos, current, ntok, outcome, error,
                   ir, calls>>

\* the running function goes on at pc (locals node, op) and calls fn
Call(pc, node, op, fn) ==
    Below \o <<Frame(Top.fn, pc, node, op), Frame(fn, "start", None, "")>>

\* compile_to_ir, first half of line 212: Parser(expr_text)
ParserInit ==
    /\ phase = "start"
    /\ LET r == get_next_token(text, 0)
       IN  IF r.exc # None THEN Raise(r.exc, r.pos)
           ELSE /\ current' = r.tok
                /\ pos' = r.pos
                /\ ntok' = Counted(ntok, r.tok)
                /\ stack' = <<Frame("parse", "start", None, "")>>
                /\ phase' = "parsing"
                /\ UNCHANGED <<text, print_result, ret, outcome, error, ir, calls>>

\* a faulty variant: what is left after the expression is not looked at
parse_no_eof_check ==
    /\ phase = "parsing" /\ stack # <<>> /\ Top.fn = "parse"
    /\ IF Top.pc = "start"
       THEN /\ stack' = Call("after_expr", None, "", "expr")
            /\ UNCHANGED <<text, print_result, phase, pos, current, ntok, ret,
                           outcome, error, ir, calls>>
       ELSE /\ stack' = <<>>
            /\ phase' = "codegen"
            /\ UNCHANGED <<text, print_result, pos, current, ntok, ret, outcome,
                           error, ir, calls>>

\* Parser.parse
parse ==
    /\ phase = "parsing" /\ stack # <<>> /\ Top.fn = "parse"
    /\ IF Top.pc = "start"
       THEN /\ stack' = Call("after_expr", None, "", "expr")
            /\ UNCHANGED <<text, print_result, phase, pos, current, ntok, ret,
                           outcome, error, ir, calls>>
       ELSE IF current.type # "EOF"
       THEN Raise(SyntaxError("Trailing input after expression", <<>>), pos)
       ELSE /\ stack' = <<>>
            /\ phase' = "codegen"
            /\ UNCHANGED <<text, print_result, pos, current, ntok, ret, outcome,
                           error, ir, calls>>

\* the loop shared by Parser.expr and Parser.term: fold the operand that has
\* just been parsed into node, then either eat an operator of ops and call
\* operand again, or return node
BinaryLoop(ops, operand) ==
    IF Top.pc = "start"
    THEN /\ stack' = Call("after_operand", None, "", operand)
         /\ UNCHANGED <<text, print_result, phase, pos, current, ntok, ret,
                        outcome, error, ir, calls>>
    ELSE LET node == IF Top.op = "" THEN ret ELSE BinOp(Top.op, Top.node, ret)
         IN  IF current.type \in ops
             THEN LET op == current.type
                      r  == eat(op)
                  IN  IF r.exc # None THEN Raise(r.exc, r.pos)
                      ELSE Shift(r, Call("after_operand", node, op, operand))
             ELSE Return(node)

\* Parser.expr
expr ==
    /\ phase = "parsing" /\ stack # <<>> /\ Top.fn = "expr"
    /\ BinaryLoop({"PLUS", "MINUS"}, "term")

\* Parser.term
term ==
    /\ phase = "parsing" /\ stack # <<>> /\ Top.fn = "term"
    /\ BinaryLoop({"MUL", "DIV"}, "factor")

\* Parser.factor
factor ==
    /\ phase = "parsing" /\ stack # <<>> /\ Top.fn = "factor"
    /\ LET tok == current
       IN  CASE Top.pc = "start" /\ tok.type \in {"PLUS", "MINUS"} ->
                  LET r == eat(tok.type)
                  IN  IF r.exc # None THEN Raise(r.exc, r.pos)
                      ELSE Shift(r, Call("after_unary", None, tok.type, "factor"))
             [] Top.pc = "start" /\ tok.type = "NUMBER" ->
                  LET r == eat("NUMBER")
                  IN  IF r.exc # None THEN Raise(r.exc, r.pos)
                      ELSE /\ current' = r.tok
                           /\ pos' = r.pos
                           /\ ntok' = Counted(ntok, r.tok)
                           /\ ret' = Number(tok.value)
                           /\ stack' = Below
                           /\ UNCHANGED <<text, print_result, phase, outcome,
                                          error, ir, calls>>
             [] Top.pc = "start" /\ tok.type = "LPAREN" ->
                  LET r == eat("LPAREN")
                  IN  IF r.exc # None THEN Raise(r.exc, r.pos)
                      ELSE Shift(r, Call("after_paren", None, "", "expr"))
             [] Top.pc = "start" /\ tok.type \in {"MUL", "DIV", "RPAREN", "EOF"} ->
                  Raise(SyntaxError("Unexpected token: ", <<tok>>), pos)
             [] Top.pc = "after_unary" -> Return(UnaryOp(Top.op, ret))
             [] Top.pc = "after_paren" ->
                  LET r == eat("RPAREN")
                  IN  IF r.exc # None THEN Raise(r.exc, r.pos)
                      ELSE /\ current' = r.tok
                           /\ pos' = r.pos
                           /\ ntok' = Counted(ntok, r.tok)
                           /\ stack' = Below
                           /\ UNCHANGED <<text, print_result, phase, ret, outcome,
                                          error, ir, calls>>

(***************************************************************************)
(* IRGen.  A line of the module is the template it is printed from and the *)
(* strings put into its holes: def (the register it defines), op, a and b  *)
(* (its operands); "" where the template has no such hole.                 *)
(*   bin    "  {def} = {op} i64 {a}, {b}"                                  *)
(*   trunc  "  {def} = trunc i64 {a} to i32"                               *)
(*   gep    "  %fmtptr = getelementptr inbounds ..., [6 x i8]* @.fmt, ..." *)
(*   call   "  call i32 (i8*, ...) @printf(i8* %fmtptr, i64 {b})"          *)
(*   ret    "  ret i32 {a}"                                                *)
(***************************************************************************)
Line(kind, def, op, a, b) == [kind |-> kind, def |-> def, op |-> op, a |-> a, b |-> b]

Fixed(kind) == Line(kind, <<>>, "", <<>>, <<>>)

FmtPtr == <<"%", "f", "m", "t", "p", "t", "r">>

\* IRGen.__init__
IRGenInit == [lines |-> <<>>, reg |-> 0]

\* a faulty variant: the counter is not incremented
newreg_no_increment(st) ==
    [reg |-> st.reg, name |-> <<"%", "t">> \o PyStr(IOf(st.reg + 1))]

\* IRGen.newreg: [reg, name]
newreg(st) == [reg |-> st.reg + 1, name |-> <<"%", "t">> \o PyStr(IOf(st.reg + 1))]

\* a faulty variant: the register is taken but its line is not appended
emit_bin_no_line(op, a, b, st) ==
    LET r == newreg(st)
    IN  [v |-> r.name, exc |-> None, lines |-> st.lines, reg |-> r.reg]

\* IRGen.emit_bin: [v, exc, lines, reg]
emit_bin(op, a, b, st) ==
    LET r == newreg(st)
    IN  [v |-> r.name, exc |-> None,
         lines |-> Append(st.lines, Line("bin", r.name, op, a, b)), reg |-> r.reg]

opmap(op) == CASE op = "PLUS" -> "add" [] op = "MINUS" -> "sub"
               [] op = "MUL" -> "mul" [] op = "DIV" -> "sdiv"

\* the test of lines 164 and 194: v.lstrip('-').isdigit()
IsImmediate(v) == StrIsDigit(LStripMinus(v))

\* a faulty variant: the immediate is not negated
NegateImmediate_dropped(v) == PyStr(PyInt(v).val)

\* line 165: str(-int(v))
NegateImmediate(v) == PyStr(INeg(PyInt(v).val))

\* IRGen.gen: [v, exc, lines, reg]
RECURSIVE gen(_, _)
gen(node, st) ==
    CASE node.kind = "Number" ->
           [v |-> PyStr(node.value), exc |-> None, lines |-> st.lines, reg |-> st.reg]
      [] node.kind = "UnaryOp" ->
           LET g == gen(node.expr, st)
           IN  IF g.exc # None THEN g
               ELSE IF node.op = "PLUS" THEN g
               ELSE IF node.op = "MINUS"
               THEN IF IsImmediate(g.v)
                    THEN IF PyInt(g.v).ok
                         THEN [g EXCEPT !.v = NegateImmediate(g.v)]
                         ELSE [g EXCEPT !.exc = ValueError(
                                 "invalid literal for int() with base 10: ", <<g.v>>)]
                    ELSE emit_bin("sub", <<"0">>, g.v, g)
               ELSE [g EXCEPT !.exc = ValueError("Unknown unary op", <<>>)]
      [] node.kind = "BinOp" ->
           LET a == gen(node.left, st)
               b == gen(node.right, a)
           IN  IF a.exc # None THEN a
               ELSE IF b.exc # None THEN b
               ELSE emit_bin(opmap(node.op), a.v, b.v, b)
      [] OTHER ->
           [v |-> <<>>, exc |-> ValueError("Unknown AST node", <<>>),
            lines |-> st.lines, reg |-> st.reg]

\* a faulty variant: the upper limit of the range is off by one (val > 2**31)
RetcodeTail_off_by_one(result_val, st) ==
    IF IsImmediate(result_val)
    THEN LET val == PyInt(result_val).val
         IN  IF ILt(val, INeg(TwoTo31)) \/ ILt(TwoTo31, val)
             THEN LET r64 == newreg(st)
                      r32 == newreg(r64)
                  IN  << Line("bin", r64.name, "add", <<"0">>, PyStr(val)),
                         Line("trunc", r32.name, "", r64.name, <<>>),
                         Line("ret", <<>>, "", r32.name, <<>>) >>
             ELSE << Line("ret", <<>>, "", PyStr(val), <<>>) >>
    ELSE LET r32 == newreg(st)
         IN  << Line("trunc", r32.name, "", result_val, <<>>),
                Line("ret", <<>>, "", r32.name, <<>>) >>

\* the tail of the function body in exit-code mode, lines 192-207
RetcodeTail(result_val, st) ==
    IF IsImmediate(result_val)
    THEN LET val == PyInt(result_val).val
         IN  IF ILt(val, INeg(TwoTo31)) \/ ILe(TwoTo31, val)
             THEN LET r64 == newreg(st)
                      r32 == newreg(r64)
                  IN  << Line("bin", r64.name, "add", <<"0">>, PyStr(val)),
                         Line("trunc", r32.name, "", r64.name, <<>>),
                         Line("ret", <<>>, "", r32.name, <<>>) >>
             ELSE << Line("ret", <<>>, "", PyStr(val), <<>>) >>
    ELSE LET r32 == newreg(st)
         IN  << Line("trunc", r32.name, "", result_val, <<>>),
                Line("ret", <<>>, "", r32.name, <<>>) >>

\* the tail of the function body in print mode, lines 188-191
PrintTail(result_val) ==
    << Line("gep", FmtPtr, "", <<>>, <<>>),
       Line("call", <<>>, "", FmtPtr, result_val),
       Line("ret", <<>>, "", <<"0">>, <<>>) >>

\* IRGen.build_module: [exc, out, result_val, lines]; out is the module,
\* line by line, result_val the local of that name, lines the field
\* IRGen.lines
build_module(expr_ast, pr) ==
    LET g == gen(expr_ast, IRGenInit)
    IN  IF g.exc # None
        THEN [exc |-> g.exc, out |-> <<>>, result_val |-> <<>>, lines |-> g.lines]
        ELSE IF IsImmediate(g.v) /\ ~pr /\ ~PyInt(g.v).ok
        THEN [exc |-> ValueError("invalid literal for int() with base 10: ", <<g.v>>),
              out |-> <<>>, result_val |-> <<>>, lines |-> g.lines]
        ELSE [exc |-> None,
              result_val |-> g.v,
              lines |-> g.lines,
              out |-> <<Fixed("comment")>>
                      \o (IF pr THEN <<Fixed("declare"), Fixed("global")>> ELSE <<>>)
                      \o <<Fixed("define"), Fixed("label")>>
                      \o g.lines
                      \o (IF pr THEN PrintTail(g.v) ELSE RetcodeTail(g.v, g))
                      \o <<Fixed("close")>>]

\* compile_to_ir, line 213: IRGen(print_result).build_module(ast)
BuildModule ==
    /\ phase = "codegen"
    /\ LET m == build_module(ret, print_result)
       IN  IF m.exc # None THEN Raise(m.exc, pos)
           ELSE /\ ir' = m
                /\ outcome' = "returned"
                /\ phase' = "done"
                /\ UNCHANGED <<text, print_result, pos, current, ntok, stack, ret,
                               error, calls>>

(***************************************************************************)
(* A caller of the lexer alone: tok = lexer.get_next_token(), again and    *)
(* again, until the lexer raises.                                          *)
(***************************************************************************)
LexerCall ==
    /\ phase = "lexer"
    /\ outcome = "running"
    /\ current # None /\ current.type = "EOF" => calls < MaxEofCalls
    /\ LET r == get_next_token(text, pos)
       IN  IF r.exc # None
           THEN /\ outcome' = "raised"
                /\ error' = r.exc
                /\ pos' = r.pos
                /\ UNCHANGED <<text, print_result, phase, current, ntok, stack, ret,
                               ir, calls>>
           ELSE /\ current' = r.tok
                /\ pos' = r.pos
                /\ ntok' = Counted(ntok, r.tok)
                /\ calls' = IF current # None /\ current.type = "EOF"
                            THEN calls + 1 ELSE calls
                /\ UNCHANGED <<text, print_result, phase, stack, ret, outcome,
                               error, ir>>

(***************************************************************************)
(* Source texts                                                            *)
(***************************************************************************)
Alphabet == {"0", "2", "3", "+", "-", "*", "/", "(", ")", " ", "&", "sup2"}

\* every text of at most MaxLen characters of Alphabet
Texts == UNION {[1..n -> Alphabet] : n \in 0..MaxLen}

ExprAlphabet == {"2", "3", "-", "/", "(", ")"}

\* every text of at most MaxExprLen characters of ExprAlphabet
ExprTexts == UNION {[1..n -> ExprAlphabet] : n \in 0..MaxExprLen}

\* longer texts: the examples of the program's documentation, and
\* literals around 2**31 and 2**32
Samples ==
    { <<"1", "+", "2", "*", "3">>,
      <<"(", "1", "+", "2", ")", "*", "3">>,
      <<"-", "(", "3", " ", "+", " ", "4", ")", " ", "/", " ", "2">>,
      <<"(", "1", "0", " ", "-", " ", "3", ")", " ", "*", " ", "(", "7", " ", "-", " ", "5", ")",
        " ", "+", " ", "4", "2">>,
      <<"-", "(", "-", "5", ")">>,
      <<"-", "-", "5">>,
      <<"-", "+", "-", "3">>,
      <<"8", "-", "4", "-", "2">>,
      <<"8", "/", "4", "/", "2">>,
      <<"-", "(", "2", "+", "3", ")">>,
      <<"-", "-", "(", "2", "*", "3", ")">>,
      <<"1", "+", "2", " ", "3">>,
      <<"(", "1", "+", "2">>,
      <<"1", "+", "2", ")">>,
      <<"1", "+", "2", "&", "3">>,
      <<"1", "+", "2", "sup2">>,
      <<"2", "1", "4", "7", "4", "8", "3", "6", "4", "7">>,
      <<"2", "1", "4", "7", "4", "8", "3", "6", "4", "8">>,
      <<"-", "2", "1", "4", "7", "4", "8", "3", "6", "4", "8">>,
      <<"-", "2", "1", "4", "7", "4", "8", "3", "6", "4", "9">>,
      <<"4", "2", "9", "4", "9", "6", "7", "2", "9", "7">>,
      <<"-", "4", "2", "9", "4", "9", "6", "7", "2", "9", "5">>,
      <<"2", "1", "4", "7", "4", "8", "3", "6", "4", "7", "+", "1">>,
      <<"0", "-", "2", "1", "4", "7", "4", "8", "3", "6", "4", "9">>,
      <<"6", "5", "5", "3", "6", "*", "6", "5", "5", "3", "7">>,
      <<"+", "2", "1", "4", "7", "4", "8", "3", "6", "4", "8">>,
      <<"4", "2", "9", "4", "9", "6", "7", "2", "9", "6", "*",
        "4", "2", "9", "4", "9", "6", "7", "2", "9", "6">>,
      <<"-", "7", "/", "2">>,
      <<"7", "/", "-", "2">> }

Inputs == Texts \cup ExprTexts \cup Samples

CommonInit ==
    /\ text \in Inputs
    /\ pos = 0
    /\ current = None
    /\ ntok = 0
    /\ stack = <<>>
    /\ ret = None
    /\ outcome = "running"
    /\ error = None
    /\ ir = None
    /\ calls = 0
    /\ steps = 0

\* compile_to_ir(text, print_result) is about to run
Init == CommonInit /\ print_result \in BOOLEAN /\ phase = "start"

Step(A) == A /\ steps' = steps + 1

Next == \/ Step(ParserInit)
        \/ Step(parse)
        \/ Step(expr)
        \/ Step(term)
        \/ Step(factor)
        \/ Step(BuildModule)

Spec == Init /\ [][Next]_vars

\* Lexer(text) has been constructed and is about to be called
LexInit == CommonInit /\ print_result = TRUE /\ phase = "lexer"

LexNext == LexerCall /\ UNCHANGED steps

LexSpec == LexInit /\ [][LexNext]_vars

(***************************************************************************)
(* What the emitted module computes: the lines run in order on 64-bit      *)
(* two's-complement registers (add, sub, mul wrap; sdiv rounds toward zero *)
(* and faults on a zero divisor or on overflow; trunc keeps the low 32     *)
(* bits).  The claims are stated against this reading of the module.       *)
(***************************************************************************)
\* n as a signed two's-complement integer of the given width
Wrap(n, bits) ==
    LET M    == IF bits = 64 THEN TwoTo64 ELSE TwoTo32
        half == IF bits = 64 THEN TwoTo63 ELSE TwoTo31
    IN  IF ILe(INeg(half), n) /\ ILt(n, half) THEN n
        ELSE LET m == MDivMod(n.mag, M.mag).r
                 r == IF n.neg /\ m # <<>> THEN MSub(M.mag, m) ELSE m
             IN  IF MCmp(r, half.mag) >= 0 THEN MkInt(TRUE, MSub(M.mag, r))
                 ELSE MkInt(FALSE, r)

IsRegister(s) == s # <<>> /\ Head(s) = "%"

Defined(env, name) == \E i \in 1..Len(env) : env[i].name = name

Lookup(env, name) == env[CHOOSE i \in 1..Len(env) : env[i].name = name].val

\* the operands of a line
Operands(l) == CASE l.kind \in {"bin", "call"} -> {l.a, l.b}
                 [] l.kind \in {"trunc", "ret"} -> {l.a}
                 [] OTHER -> {}

RegisterOperands(l) == {s \in Operands(l) : IsRegister(s)}

OperandVal(s, env) == IF IsRegister(s) THEN Lookup(env, s) ELSE PyInt(s).val

RunBin(op, x, y) ==
    CASE op = "add" -> [fault |-> FALSE, val |-> Wrap(IAdd(x, y), 64)]
      [] op = "sub" -> [fault |-> FALSE, val |-> Wrap(ISub(x, y), 64)]
      [] op = "mul" -> [fault |-> FALSE, val |-> Wrap(IMul(x, y), 64)]
      [] op = "sdiv" ->
           IF y = IZero \/ (x = INeg(TwoTo63) /\ y = IOf(-1))
           THEN [fault |-> TRUE, val |-> IZero]
           ELSE [fault |-> FALSE, val |-> ITruncDiv(x, y)]

\* the state of a run: env (the registers defined so far, in order), fault
\* (a faulting sdiv, or an operand that names no defined register), printed
\* and returned (the values given to printf and to ret; None before)
RunInit == [env |-> <<>>, fault |-> FALSE, printed |-> None, returned |-> None]

RunLine(l, st) ==
    IF st.fault THEN st
    ELSE IF \E s \in RegisterOperands(l) : ~Defined(st.env, s)
    THEN [st EXCEPT !.fault = TRUE]
    ELSE CASE l.kind = "bin" ->
                LET r == RunBin(l.op, OperandVal(l.a, st.env), OperandVal(l.b, st.env))
                IN  IF r.fault THEN [st EXCEPT !.fault = TRUE]
                    ELSE [st EXCEPT !.env = Append(@, [name |-> l.def, val |-> r.val])]
           [] l.kind = "trunc" ->
                [st EXCEPT !.env = Append(@, [name |-> l.def,
                                              val |-> Wrap(OperandVal(l.a, st.env), 32)])]
           [] l.kind = "gep" ->
                [st EXCEPT !.env = Append(@, [name |-> l.def, val |-> IZero])]
           [] l.kind = "call" -> [st EXCEPT !.printed = OperandVal(l.b, st.env)]
           [] l.kind = "ret" -> [st EXCEPT !.returned = OperandVal(l.a, st.env)]
           [] OTHER -> st

RECURSIVE RunFrom(_, _, _)
RunFrom(lines, i, st) ==
    IF i > Len(lines) THEN st
    ELSE LET next == RunLine(lines[i], st)
         IN  IF next.fault THEN next ELSE RunFrom(lines, i + 1, next)

Run(m) == RunFrom(m.out, 1, RunInit)

\* the 64-bit value the expression's result operand holds after the run
FinalValue(m) == OperandVal(m.result_val, Run(m).env)

(***************************************************************************)
(* The value of an expression under standard arithmetic, read off its      *)
(* tokens without the parser: split at the last binary + or - outside all  *)
(* parentheses; failing that at the last binary * or /; failing that strip *)
(* a leading sign or an enclosing pair of parentheses.                     *)
(***************************************************************************)
\* the tokens of a text, up to EOF or the first error of the lexer
RECURSIVE TokensFrom(_, _)
TokensFrom(t, p) ==
    LET r == get_next_token(t, p)
    IN  IF r.exc # None \/ r.tok.type = "EOF" THEN <<>>
        ELSE <<r.tok>> \o TokensFrom(t, r.pos)

TokensOf(t) == TokensFrom(t, 0)

\* The lexer gets through all of the text: every character is whitespace,
\* a decimal digit or one of + - * / ( ).
Lexable(t) ==
    \A i \in 1..Len(t) : t[i] \in AsciiDigits \cup {" ", "+", "-", "*", "/", "(", ")"}

ParenDepth(toks, i) ==
    Cardinality({j \in 1..(i - 1) : toks[j].type = "LPAREN"})
    - Cardinality({j \in 1..(i - 1) : toks[j].type = "RPAREN"})

\* the operator at i has a left operand and stands outside all parentheses
TopBinary(toks, i, ops) ==
    /\ i > 1
    /\ toks[i].type \in ops
    /\ toks[i - 1].type \in {"NUMBER", "RPAREN"}
    /\ ParenDepth(toks, i) = 0

LastTopBinary(toks, ops) ==
    LET S == {i \in 1..Len(toks) : TopBinary(toks, i, ops)}
    IN  IF S = {} THEN 0 ELSE CHOOSE i \in S : \A j \in S : j <= i

InInt64(n) == ILe(INeg(TwoTo63), n) /\ ILt(n, TwoTo63)

\* [ok, val]: ok is FALSE when a division by zero or a value outside the
\* 64-bit range occurs anywhere in the expression
RefApply(op, x, y) ==
    IF ~x.ok \/ ~y.ok \/ (op = "DIV" /\ y.val = IZero) THEN [ok |-> FALSE, val |-> IZero]
    ELSE LET v == CASE op = "PLUS" -> IAdd(x.val, y.val)
                    [] op = "MINUS" -> ISub(x.val, y.val)
                    [] op = "MUL" -> IMul(x.val, y.val)
                    [] op = "DIV" -> ITruncDiv(x.val, y.val)
         IN  [ok |-> InInt64(v), val |-> v]

RECURSIVE RefEval(_)
RefEval(toks) ==
    LET n == Len(toks)
        i == LastTopBinary(toks, {"PLUS", "MINUS"})
        j == LastTopBinary(toks, {"MUL", "DIV"})
    IN  IF i > 0
        THEN RefApply(toks[i].type, RefEval(SubSeq(toks, 1, i - 1)),
                      RefEval(SubSeq(toks, i + 1, n)))
        ELSE IF j > 0
        THEN RefApply(toks[j].type, RefEval(SubSeq(toks, 1, j - 1)),
                      RefEval(SubSeq(toks, j + 1, n)))
        ELSE IF toks[1].type = "PLUS" THEN RefEval(Tail(toks))
        ELSE IF toks[1].type = "MINUS"
        THEN LET x == RefEval(Tail(toks))
             IN  [ok |-> x.ok /\ InInt64(INeg(x.val)), val |-> INeg(x.val)]
        ELSE IF toks[1].type = "LPAREN" THEN RefEval(SubSeq(toks, 2, n - 1))
        ELSE [ok |-> InInt64(toks[1].value), val |-> toks[1].value]

Compiled == phase = "done" /\ outcome = "returned"

T_1plus2times3 == <<"1", "+", "2", "*", "3">>

T_paren1plus2times3 == <<"(", "1", "+", "2", ")", "*", "3">>

\* C1: for every valid expression with no division by zero and no 64-bit
\* overflow, running the emitted instructions in order leaves in the result
\* operand the value of the expression under standard arithmetic (* and /
\* before + and -, unary signs before any binary operator, equal precedence
\* from the left, parentheses first, / rounding toward zero); "1+2*3" gives
\* 7 and "(1+2)*3" gives 9.
C1_ComputesExpressionValue ==
    Compiled =>
      /\ LET ref == RefEval(TokensOf(text))
         IN  ref.ok => ~Run(ir).fault /\ FinalValue(ir) = ref.val
      /\ text = T_1plus2times3 => FinalValue(ir) = IOf(7)
      /\ text = T_paren1plus2times3 => FinalValue(ir) = IOf(9)

C1_Witness ==
    /\ Compiled
    /\ text = <<"-", "(", "3", " ", "+", " ", "4", ")", " ", "/", " ", "2">>
    /\ RefEval(TokensOf(text)).ok
    /\ FinalValue(ir) = IOf(-3)

(***************************************************************************)
(* The grammar, as a definition of which token sequences are an expr:     *)
(*   expr := term (('+'|'-') term)*                                        *)
(*   term := factor (('*'|'/') factor)*                                    *)
(*   factor := NUMBER | '(' expr ')' | ('+'|'-') factor                    *)
(* over the sequence of the tokens' types.                                 *)
(***************************************************************************)
Types(toks) == [i \in 1..Len(toks) |-> toks[i].type]

RECURSIVE IsExpr(_), IsTerm(_), IsFactor(_)
IsFactor(ts) ==
    /\ ts # <<>>
    /\ \/ ts = <<"NUMBER">>
       \/ /\ Len(ts) >= 3
          /\ ts[1] = "LPAREN" /\ ts[Len(ts)] = "RPAREN"
          /\ IsExpr(SubSeq(ts, 2, Len(ts) - 1))
       \/ ts[1] \in {"PLUS", "MINUS"} /\ IsFactor(Tail(ts))

IsTerm(ts) ==
    \/ IsFactor(ts)
    \/ \E i \in 2..(Len(ts) - 1) :
         /\ ts[i] \in {"MUL", "DIV"}
         /\ IsFactor(SubSeq(ts, i + 1, Len(ts)))
         /\ IsTerm(SubSeq(ts, 1, i - 1))

IsExpr(ts) ==
    \/ IsTerm(ts)
    \/ \E i \in 2..(Len(ts) - 1) :
         /\ ts[i] \in {"PLUS", "MINUS"}
         /\ IsTerm(SubSeq(ts, i + 1, Len(ts)))
         /\ IsExpr(SubSeq(ts, 1, i - 1))

\* the text is a valid expression: the lexer gets through it and its tokens
\* are an expr
ValidExpression(t) == Lexable(t) /\ IsExpr(Types(TokensOf(t)))

\* The first violation.  With ts followed by EOF, token k is acceptable
\* after the tokens before it when: at the start, after an operator or
\* after '(' it starts an operand; after a NUMBER or ')' it is a binary
\* operator, a ')' that closes an open '(', or EOF with no '(' open.
Open(ts, k) ==
    Cardinality({j \in 1..(k - 1) : ts[j] = "LPAREN"})
    - Cardinality({j \in 1..(k - 1) : ts[j] = "RPAREN"})

Acceptable(ts, k) ==
    IF k = 1 \/ ts[k - 1] \in {"PLUS", "MINUS", "MUL", "DIV", "LPAREN"}
    THEN ts[k] \in {"NUMBER", "LPAREN", "PLUS", "MINUS"}
    ELSE \/ ts[k] \in {"PLUS", "MINUS", "MUL", "DIV"}
         \/ ts[k] = "RPAREN" /\ Open(ts, k) > 0
         \/ ts[k] = "EOF" /\ Open(ts, k) = 0

\* the index of the first token of ts \o <<EOF>> that is not acceptable; 0
\* when all are
FirstViolation(ts) ==
    LET all == ts \o <<"EOF">>
        bad == {k \in 1..Len(all) : ~Acceptable(all, k)}
    IN  IF bad = {} THEN 0 ELSE CHOOSE k \in bad : \A j \in bad : k <= j

\* the index, among the tokens of the text, of the parser's lookahead
CurrentIndex == IF current.type = "EOF" THEN ntok + 1 ELSE ntok

Failed == phase = "done" /\ outcome = "raised"

T_trailing == <<"1", "+", "2", " ", "3">>

T_unclosed == <<"(", "1", "+", "2">>

T_unopened == <<"1", "+", "2", ")">>

\* C3: on a text the lexer gets through, parse returns an AST exactly when
\* the tokens are one expr of the grammar followed by end of input; in every
\* other case it raises SyntaxError with the lookahead at the first token
\* that violates the grammar, and no AST (and no module) is returned.  That
\* covers a token left over ("1+2 3", "1+2)"), an unclosed '(' ("(1+2") and
\* the empty text.
C3_ParseAcceptsExactlyGrammar ==
    (phase \in {"codegen", "done"} /\ Lexable(text)) =>
      LET ts == Types(TokensOf(text))
      IN  /\ IsExpr(ts) <=> (phase = "codegen" \/ outcome = "returned")
          /\ IsExpr(ts) <=> FirstViolation(ts) = 0
          /\ ~IsExpr(ts) =>
               /\ Failed
               /\ error.type = "SyntaxError"
               /\ ir = None
               /\ CurrentIndex = FirstViolation(ts)
          /\ text \in {T_trailing, T_unclosed, T_unopened, <<>>} => Failed

C3_Witness ==
    /\ Failed
    /\ text = T_unclosed
    /\ error.type = "SyntaxError"
    /\ current.type = "EOF"
    /\ CurrentIndex = 5

C3_WitnessAccept ==
    /\ phase = "codegen"
    /\ text = T_paren1plus2times3
    /\ ret.kind = "BinOp"

\* the registers the lines before line i define
DefinedBefore(out, i) == {out[j].def : j \in 1..(i - 1)} \ {<<>>}

\* C2: every valid expression compiles, in both modes, and in the emitted
\* module every register that is an operand of a line is defined by a
\* strictly earlier line.
C2_DefinedBeforeUse ==
    /\ (phase = "done" /\ ValidExpression(text)) => outcome = "returned"
    /\ Compiled =>
         \A i \in 1..Len(ir.out) :
           RegisterOperands(ir.out[i]) \subseteq DefinedBefore(ir.out, i)

C2_Witness ==
    /\ Compiled
    /\ print_result
    /\ text = T_paren1plus2times3
    /\ \E i \in 1..Len(ir.out) :
         ir.out[i].kind = "bin" /\ Cardinality(RegisterOperands(ir.out[i])) = 1
    /\ \E i \in 1..Len(ir.out) :
         ir.out[i].kind = "call" /\ Cardinality(RegisterOperands(ir.out[i])) = 2

InInt32(n) == ILe(INeg(TwoTo31), n) /\ ILt(n, TwoTo31)

\* the line of the module that defines register r
DefiningLine(out, r) == out[CHOOSE i \in 1..Len(out) : out[i].def = r]

RetLine(out) == out[CHOOSE i \in 1..Len(out) : out[i].kind = "ret"]

T_2147483648 == <<"2", "1", "4", "7", "4", "8", "3", "6", "4", "8">>

\* C4: in exit-code mode the value the module returns is the 64-bit final
\* value wrapped to signed 32 bits.  An immediate final value is returned as
\* a literal exactly when it lies in [-2^31, 2^31 - 1]; outside that range it
\* is materialized by 'add i64 0, <val>' and narrowed by a trunc; a register
\* final value is narrowed by a trunc.  "2147483648" returns -2147483648.
C4_ExitCodeIsTruncatedValue ==
    (Compiled /\ ~print_result) =>
      LET run  == Run(ir)
          rl   == RetLine(ir.out)
          rv   == ir.result_val
      IN  /\ ~run.fault => run.returned = Wrap(FinalValue(ir), 32)
          /\ IF IsRegister(rv)
             THEN /\ IsRegister(rl.a)
                  /\ DefiningLine(ir.out, rl.a).kind = "trunc"
                  /\ DefiningLine(ir.out, rl.a).a = rv
             ELSE LET val == PyInt(rv).val
                  IN  /\ InInt32(val) <=> ~IsRegister(rl.a)
                      /\ InInt32(val) => PyInt(rl.a).val = val
                      /\ ~InInt32(val) =>
                           LET tl == DefiningLine(ir.out, rl.a)
                           IN  /\ tl.kind = "trunc"
                               /\ IsRegister(tl.a)
                               /\ DefiningLine(ir.out, tl.a)
                                    = Line("bin", tl.a, "add", <<"0">>, PyStr(val))
          /\ text = T_2147483648 => run.returned = INeg(TwoTo31)

C4_Witness ==
    /\ Compiled /\ ~print_result
    /\ text = T_2147483648
    /\ IsRegister(RetLine(ir.out).a)
    /\ Run(ir).returned = INeg(TwoTo31)

RECURSIVE Subtrees(_)
Subtrees(n) ==
    {n} \cup CASE n.kind = "BinOp" -> Subtrees(n.left) \cup Subtrees(n.right)
               [] n.kind = "UnaryOp" -> Subtrees(n.expr)
               [] OTHER -> {}

\* the node lowers to a register: some BinOp is reached through unary
\* operators only
RECURSIVE LowersToRegister(_)
LowersToRegister(n) ==
    CASE n.kind = "BinOp" -> TRUE
      [] n.kind = "UnaryOp" -> LowersToRegister(n.expr)
      [] OTHER -> FALSE

\* BinaryExpr nodes, and unary-minus nodes over a register, with repetition
RECURSIVE EmittingNodes(_)
EmittingNodes(n) ==
    CASE n.kind = "BinOp" -> 1 + EmittingNodes(n.left) + EmittingNodes(n.right)
      [] n.kind = "UnaryOp" ->
           (IF n.op = "MINUS" /\ LowersToRegister(n.expr) THEN 1 ELSE 0)
           + EmittingNodes(n.expr)
      [] OTHER -> 0

RECURSIVE UnaryOnly(_)
UnaryOnly(n) ==
    CASE n.kind = "Number" -> TRUE
      [] n.kind = "UnaryOp" -> UnaryOnly(n.expr)
      [] OTHER -> FALSE

Emitted(n) == Len(gen(n, IRGenInit).lines)

\* C5: the code generator emits one instruction per BinaryExpr node and one
\* per unary minus whose operand lowers to a register, and nothing else:
\* a BinaryExpr emits one instruction even on two immediates; unary '+'
\* emits nothing and passes its operand's value on; unary '-' on an
\* immediate emits nothing and yields the negated immediate; unary '-' on a
\* register emits 'sub i64 0, <reg>'.  An expression of unary operators and
\* parentheses around one literal gives no instruction and the immediate of
\* its value ("--5" and "-(-5)" give 5).
C5_AsymmetricFolding ==
    Compiled =>
      /\ Len(ir.lines) = EmittingNodes(ret)
      /\ \A n \in Subtrees(ret) :
           LET g == gen(n, IRGenInit)
           IN  CASE n.kind = "BinOp" ->
                      /\ Emitted(n) = 1 + Emitted(n.left) + Emitted(n.right)
                      /\ g.lines[Len(g.lines)].op = opmap(n.op)
                      /\ g.v = g.lines[Len(g.lines)].def
                 [] n.kind = "UnaryOp" ->
                      LET c == gen(n.expr, IRGenInit)
                      IN  IF n.op = "PLUS" THEN g = c
                          ELSE IF ~IsRegister(c.v)
                          THEN /\ g.lines = c.lines
                               /\ ~IsRegister(g.v)
                               /\ PyInt(g.v).val = INeg(PyInt(c.v).val)
                          ELSE /\ g.lines = Append(c.lines,
                                      Line("bin", g.v, "sub", <<"0">>, c.v))
                               /\ IsRegister(g.v)
                 [] OTHER -> g.lines = <<>> /\ PyInt(g.v).val = n.value
      /\ UnaryOnly(ret) =>
           /\ ir.lines = <<>>
           /\ ~IsRegister(ir.result_val)
           /\ PyInt(ir.result_val).val = RefEval(TokensOf(text)).val
      /\ text \in {<<"-", "-", "5">>, <<"-", "(", "-", "5", ")">>} =>
           ir.lines = <<>> /\ ir.result_val = <<"5">>

C5_Witness ==
    /\ Compiled
    /\ text = <<"-", "-", "(", "2", "*", "3", ")">>
    /\ Len(ir.lines) = 3
    /\ EmittingNodes(ret) = 3

C5_WitnessFold ==
    /\ Compiled
    /\ text = <<"-", "(", "-", "5", ")">>
    /\ ir.lines = <<>>
    /\ ir.result_val = <<"5">>

\* the registers the lines of kinds ks define, top to bottom
RECURSIVE DefsFrom(_, _, _)
DefsFrom(out, i, ks) ==
    IF i > Len(out) THEN <<>>
    ELSE (IF out[i].def # <<>> /\ out[i].kind \in ks THEN <<out[i].def>> ELSE <<>>)
         \o DefsFrom(out, i + 1, ks)

Numbered(k) == <<"%", "t">> \o PyStr(IOf(k))

InOrder(defs) == \A k \in 1..Len(defs) : defs[k] = Numbered(k)

\* C9 as stated: in both modes the register-defining lines of the module
\* define exactly %t1, %t2, ..., %tk, in that order.
C9_AllRegistersNumbered ==
    Compiled => InOrder(DefsFrom(ir.out, 1, {"bin", "trunc", "gep"}))

\* C9, amended: in both modes the lines that define a register by an
\* arithmetic or narrowing instruction define exactly %t1, %t2, ..., %tk in
\* that order (from 1, by 1 per emitted instruction, no gap, no name twice,
\* the materialize and narrowing registers of exit-code mode included); in
\* print mode one more line, after them, defines the fixed register %fmtptr,
\* which is not drawn from the counter.
C9_NumberedRegistersInOrder ==
    Compiled =>
      LET numbered == DefsFrom(ir.out, 1, {"bin", "trunc"})
          all      == DefsFrom(ir.out, 1, {"bin", "trunc", "gep"})
      IN  /\ InOrder(numbered)
          /\ Len(numbered) = Len(ir.lines)
                              + (IF print_result THEN 0
                                 ELSE IF IsRegister(ir.result_val) THEN 1
                                 ELSE IF InInt32(PyInt(ir.result_val).val) THEN 0
                                 ELSE 2)
          /\ all = numbered \o (IF print_result THEN <<FmtPtr>> ELSE <<>>)

C9_Witness ==
    /\ Compiled
    /\ ~print_result
    /\ text = <<"(", "1", "+", "2", ")", "*", "3">>
    /\ DefsFrom(ir.out, 1, {"bin", "trunc"}) = <<Numbered(1), Numbered(2), Numbered(3)>>

C9_WitnessPrint ==
    /\ Compiled
    /\ print_result
    /\ text = T_1plus2times3
    /\ DefsFrom(ir.out, 1, {"bin", "trunc", "gep"}) = <<Numbered(1), Numbered(2), FmtPtr>>

KnownChars == AsciiDigits \cup {"sup2", " ", "+", "-", "*", "/", "(", ")"}

\* the lexer has stopped at a character it does not know
LexerRejected ==
    /\ outcome = "raised"
    /\ error.msg = "Unexpected character: "
    /\ pos < Len(text)
    /\ text[pos + 1] \notin KnownChars

T_ampersand == <<"1", "+", "2", "&", "3">>

C7_OnlyLexOrSyntaxErrors ==
    phase = "done" =>
      \/ outcome = "returned" /\ ir # None
      \/ outcome = "raised" /\ ir = None /\ error.type \in {"LexError", "SyntaxError"}

\* C8: on a text the lexer gets through, every call of get_next_token
\* returns a token (the lexer never raises, so the next call can be made),
\* at most len(text) of them other than EOF: a token other than EOF moves the
\* position forward, never past the end.  Once a call has returned EOF every
\* later call returns EOF and leaves the lexer as it was.
C8_FiniteThenEOFForever ==
    /\ [](Lexable(text) =>
            /\ ntok <= Len(text)
            /\ pos <= Len(text)
            /\ outcome = "running")
    /\ [][Lexable(text) =>
            /\ current' # None
            /\ current'.type # "EOF" => pos' > pos /\ ntok' = ntok + 1
            /\ (current # None /\ current.type = "EOF") =>
                 current'.type = "EOF" /\ pos' = pos /\ ntok' = ntok]_vars

C8_Witness ==
    /\ phase = "lexer"
    /\ text = <<"(", "2", ")">>
    /\ ntok = Len(text)
    /\ current.type = "EOF"
    /\ calls = MaxEofCalls

\* a frame has just been pushed by an iteration of the loop of expr or term,
\* or by factor after a unary operator or '('
CalledAfterOperator ==
    /\ stack # <<>>
    /\ Len(stack') = Len(stack) + 1
    /\ LET caller == stack'[Len(stack)]
       IN  \/ caller.pc = "after_operand" /\ caller.op # ""
           \/ caller.pc \in {"after_unary", "after_paren"}

StepBound(t) == 3 * Len(t) + 6

\* the guard of one of the steps of compile_to_ir holds
CanStep ==
    \/ phase \in {"start", "codegen"}
    \/ /\ phase = "parsing"
       /\ stack # <<>>
       /\ \/ Top.fn = "parse" /\ Top.pc \in {"start", "after_expr"}
          \/ Top.fn \in {"expr", "term"} /\ Top.pc \in {"start", "after_operand"}
          \/ Top.fn = "factor" /\ Top.pc \in {"start", "after_unary", "after_paren"}

\* C10: parsing terminates on every text: until compile_to_ir has returned
\* or raised it can take a step, and it takes at most 3*len(text)+6 of them;
\* every iteration of the loops of expr and term and every call of factor
\* after a unary operator or '(' comes with the consumption of one token
\* (the operator or '(' is eaten and the lookahead moves to the next token);
\* the lexer's position never decreases and never exceeds len(text).
C10_ParsingTerminates ==
    /\ [](/\ pos <= Len(text)
          /\ steps <= StepBound(text)
          /\ phase # "done" => CanStep
          /\ phase = "done" => outcome \in {"returned", "raised"})
    /\ [][/\ pos' >= pos
          /\ steps' = steps + 1
          /\ CalledAfterOperator =>
               /\ current.type \in {"PLUS", "MINUS", "MUL", "DIV", "LPAREN"}
               /\ CurrentIndex' = CurrentIndex + 1]_vars

C10_Witness ==
    /\ phase = "done"
    /\ text = <<"(", "(", "2", ")", ")">>
    /\ steps = StepBound(text)
    /\ pos = Len(text)

====
